---- MODULE Spec2Model ----
(***************************************************************************)
(* titleCase of lib/forio-utils.js, with the helpers it calls (lowerCase,  *)
(* capitalize) and the regular expressions it runs.                        *)
(*                                                                         *)
(* A JavaScript string is a sequence of one-character strings; offsets are *)
(* 0-based as in the source, so the character at offset p is s[p + 1].     *)
(* The values null and undefined are one-element sequences whose element   *)
(* is no character.                                                        *)
(***************************************************************************)
EXTENDS Integers, Sequences, FiniteSets, TLC

null == <<"null">>
undefined == <<"undefined">>
TypeError == <<"TypeError">>

(***************************************************************************)
(* Characters and String.prototype methods                                 *)
(***************************************************************************)
LowerLetters ==
    <<"a", "b", "c", "d", "e", "f", "g", "h", "i", "j", "k", "l", "m",
      "n", "o", "p", "q", "r", "s", "t", "u", "v", "w", "x", "y", "z">>
UpperLetters ==
    <<"A", "B", "C", "D", "E", "F", "G", "H", "I", "J", "K", "L", "M",
      "N", "O", "P", "Q", "R", "S", "T", "U", "V", "W", "X", "Y", "Z">>
LowerSet == {LowerLetters[i] : i \in 1..Len(LowerLetters)}
UpperSet == {UpperLetters[i] : i \in 1..Len(UpperLetters)}
Letters == LowerSet \cup UpperSet
Digits == {"0", "1", "2", "3", "4", "5", "6", "7", "8", "9"}

\* the case mappings of the ASCII letters; every other character maps to itself
LowerOf == [c \in UpperSet |-> LowerLetters[CHOOSE i \in 1..Len(UpperLetters) : UpperLetters[i] = c]]
UpperOf == [c \in LowerSet |-> UpperLetters[CHOOSE i \in 1..Len(LowerLetters) : LowerLetters[i] = c]]

toLowerCase(s) == [i \in 1..Len(s) |-> IF s[i] \in UpperSet THEN LowerOf[s[i]] ELSE s[i]]
toUpperCase(s) == [i \in 1..Len(s) |-> IF s[i] \in LowerSet THEN UpperOf[s[i]] ELSE s[i]]

Min(a, b) == IF a < b THEN a ELSE b
Max(a, b) == IF a > b THEN a ELSE b

\* s.substring(from, to) for 0 <= from, to
substring(s, from, to) == SubSeq(s, Min(from, Len(s)) + 1, Min(to, Len(s)))
\* s.substr(from, length) and s.substr(from)
substr(s, from, length) == substring(s, from, from + length)
substrFrom(s, from) == substring(s, from, Len(s))

RECURSIVE join_withCommas(_)
\* parts.join(): the separator left out, which makes it a comma
join_withCommas(ps) ==
    IF ps = <<>> THEN <<>>
    ELSE IF Len(ps) = 1 THEN ps[1]
    ELSE ps[1] \o <<",">> \o join_withCommas(Tail(ps))

RECURSIVE join(_)
\* parts.join('')
join(ps) == IF ps = <<>> THEN <<>> ELSE Head(ps) \o join(Tail(ps))

\* Array.prototype.toString, the coercion of an array in a string concatenation
RECURSIVE arrayToString(_)
arrayToString(items) ==
    IF items = <<>> THEN <<>>
    ELSE IF Len(items) = 1 THEN items[1]
    ELSE items[1] \o <<",">> \o arrayToString(Tail(items))

(***************************************************************************)
(* Regular expressions: the matching primitives of the engine              *)
(***************************************************************************)
\* \w
IsWordChar(c) == c \in Letters \cup Digits \cup {"_"}

\* \b at offset p of s
WordBoundary(s, p) ==
    LET before == p >= 1 /\ p <= Len(s) /\ IsWordChar(s[p])
        after == p < Len(s) /\ IsWordChar(s[p + 1])
    IN  before # after

\* the i flag: two characters match when their case foldings agree
Fold(c) == IF c \in UpperSet THEN LowerOf[c] ELSE c

SetMax(S) == CHOOSE x \in S : \A y \in S : y <= x
SetMin(S) == CHOOSE x \in S : \A y \in S : x <= y

RECURSIVE Scan(_, _, _)
\* The matches <<offset, length>> of a g-flagged regular expression over a string
\* of length n, left to right from offset p: L[q] is the length of the match that
\* starts at offset q, -1 when there is none there. The search resumes at the end
\* of each match, one further after an empty one.
Scan(L, p, n) ==
    IF p > n THEN <<>>
    ELSE LET length == L[p]
         IN  IF length >= 0 THEN <<<<p, length>>>> \o Scan(L, p + Max(length, 1), n)
             ELSE Scan(L, p + 1, n)

RECURSIVE Splice(_, _, _, _, _)
\* String.prototype.replace: s with its k-th and later matches ms replaced by
\* reps, copying the text between the matches from offset from on
Splice(s, ms, reps, k, from) ==
    IF k > Len(ms) THEN substrFrom(s, from)
    ELSE substring(s, from, ms[k][1]) \o reps[k]
         \o Splice(s, ms, reps, k + 1, ms[k][1] + ms[k][2])

\* s.charAt(p)
CharAt(s, p) == IF p >= 0 /\ p < Len(s) THEN s[p + 1] ELSE ""

\* the text of the match m of s
Matched(s, m) == substr(s, m[1], m[2])

(***************************************************************************)
(* The module's constants and the helpers titleCase calls                  *)
(***************************************************************************)
\* SMALL with via left out
SMALL_withoutVia ==
    <<
      "(", "a", "|", "a", "n", "|", "a", "n", "d", "|", "a", "s", "|", "a",
      "t", "|", "b", "u", "t", "|", "b", "y", "|", "e", "n", "|", "f", "o",
      "r", "|", "i", "f", "|", "i", "n", "|", "o", "f", "|", "o", "n", "|",
      "o", "r", "|", "t", "h", "e", "|", "t", "o", "|", "v", "[", ".", "]",
      "?", "|", "v", "s", "[", ".", "]", "?", ")"
    >>

\* '(a|an|and|as|at|but|by|en|for|if|in|of|on|or|the|to|v[.]?|via|vs[.]?)'
SMALL ==
    <<
      "(", "a", "|", "a", "n", "|", "a", "n", "d", "|", "a", "s", "|", "a",
      "t", "|", "b", "u", "t", "|", "b", "y", "|", "e", "n", "|", "f", "o",
      "r", "|", "i", "f", "|", "i", "n", "|", "o", "f", "|", "o", "n", "|",
      "o", "r", "|", "t", "h", "e", "|", "t", "o", "|", "v", "[", ".", "]",
      "?", "|", "v", "i", "a", "|", "v", "s", "[", ".", "]", "?", ")"
    >>

\* the character class of PUNCT; "\\u0060" is the grave accent, which a string of
\* this language cannot hold
PUNCT ==
    {"!", "\"", "#", "$", "%", "&", "'", "(", ")", "*", "+", ",", ".", "/",
     ":", ";", "<", "=", ">", "?", "@", "[", "\\", "]", "^", "_", "\\u0060", "{",
     "|", "}", "~", "-"}

\* utils.lowerCase without its test for null
lowerCase_unguarded(string) == toLowerCase(string)

\* utils.lowerCase: null and undefined read as the empty string
lowerCase(string) ==
    toLowerCase(IF string = null \/ string = undefined THEN <<>> ELSE string)

\* utils.capitalize
capitalize(string) == toUpperCase(substr(string, 0, 1)) \o substrFrom(string, 1)

(***************************************************************************)
(* The blacklist as a regular expression. titleCase concatenates its       *)
(* blacklist argument into three pattern sources, which coerces an array   *)
(* to its comma-joined text. The patterns read here are those made of      *)
(* literal characters, one-character classes [c], the postfix ? and |,     *)
(* either wholly inside one pair of parentheses or without | (the shape of *)
(* SMALL, and of a plain word list once coerced).                          *)
(***************************************************************************)
\* the index of the first c in s at or after index i, 0 when there is none
IndexFrom(s, c, i) ==
    LET I == {j \in i..Len(s) : s[j] = c}
    IN  IF I = {} THEN 0 ELSE SetMin(I)

RECURSIVE Alternatives(_)
\* the alternatives of a pattern source: its text between the | signs
Alternatives(src) ==
    LET j == IndexFrom(src, "|", 1)
    IN  IF j = 0 THEN <<src>>
        ELSE <<SubSeq(src, 1, j - 1)>> \o Alternatives(SubSeq(src, j + 1, Len(src)))

RECURSIVE Atoms(_)
\* the atoms of one alternative: the characters each accepts (case-folded,
\* for the i flag) and whether a ? makes it optional
Atoms(alt) ==
    IF alt = <<>> THEN <<>>
    ELSE LET close == IF alt[1] = "[" THEN IndexFrom(alt, "]", 2) ELSE 0
             chars == IF close > 0 THEN {Fold(alt[j]) : j \in 2..(close - 1)}
                      ELSE {Fold(alt[1])}
             next == IF close > 0 THEN close + 1 ELSE 2
             opt == next <= Len(alt) /\ alt[next] = "?"
             rest == SubSeq(alt, IF opt THEN next + 1 ELSE next, Len(alt))
         IN  <<[chars |-> chars, opt |-> opt]>> \o Atoms(rest)

\* the characters a match of the atoms can start with: those of the atoms up to
\* the first that is not optional
RECURSIVE FirstChars(_)
FirstChars(atoms) ==
    IF atoms = <<>> THEN {}
    ELSE IF atoms[1].opt THEN atoms[1].chars \cup FirstChars(Tail(atoms))
    ELSE atoms[1].chars

\* new RegExp(... + blacklist + ..., 'ig'): the part the blacklist contributes.
\* grouped: the source is one capturing group. first, nullable: the characters
\* a match can start with, and whether an alternative can match no text at all.
Compile(src) ==
    LET grouped == Len(src) >= 2 /\ src[1] = "(" /\ src[Len(src)] = ")"
        body == IF grouped THEN SubSeq(src, 2, Len(src) - 1) ELSE src
        alts == Alternatives(body)
        atoms == [k \in 1..Len(alts) |-> Atoms(alts[k])]
    IN  [grouped |-> grouped,
         alts |-> atoms,
         first |-> UNION {FirstChars(atoms[k]) : k \in 1..Len(atoms)},
         nullable |-> \E k \in 1..Len(atoms) :
                         \A i \in 1..Len(atoms[k]) : atoms[k][i].opt]

RECURSIVE Alternation(_)
\* items.join('|')
Alternation(items) ==
    IF items = <<>> THEN <<>>
    ELSE IF Len(items) = 1 THEN items[1]
    ELSE items[1] \o <<"|">> \o Alternation(Tail(items))

\* an array compiled to the alternation of its words
PatternText_alternation(blacklist) ==
    IF blacklist.type = "array"
    THEN <<"(">> \o Alternation(blacklist.value) \o <<")">>
    ELSE blacklist.value

\* the text a blacklist argument contributes to a pattern source
PatternText(blacklist) ==
    IF blacklist.type = "array" THEN arrayToString(blacklist.value)
    ELSE blacklist.value

SmallRegExp == Compile(SMALL)

\* the compiled blacklist; SMALL is compiled once here, the result is the same
BlacklistRegExp(blacklist) ==
    LET src == PatternText(blacklist)
    IN  IF src = SMALL THEN SmallRegExp ELSE Compile(src)

RECURSIVE AtomEnds(_, _, _, _)
\* the end offsets of the matches of atoms[k], atoms[k+1], ... at offset p of s,
\* in the order backtracking tries them (an optional atom first taken, then not)
AtomEnds(s, p, atoms, k) ==
    IF k > Len(atoms) THEN <<p>>
    ELSE LET take == IF p < Len(s) /\ Fold(s[p + 1]) \in atoms[k].chars
                     THEN AtomEnds(s, p + 1, atoms, k + 1) ELSE <<>>
             skip == IF atoms[k].opt THEN AtomEnds(s, p, atoms, k + 1) ELSE <<>>
         IN  take \o skip

RECURSIVE AlternationEnds(_, _, _, _)
\* the same for the alternation: the alternatives are tried in their order
AlternationEnds(s, p, alts, k) ==
    IF k > Len(alts) THEN <<>>
    ELSE AtomEnds(s, p, alts[k], 1) \o AlternationEnds(s, p, alts, k + 1)

\* the end offset of the blacklist's match at offset p of s whose continuation
\* matches (ok[e]: the rest of the pattern matches at offset e), -1 if none
BlacklistEnd(s, p, re, ok) ==
    IF ~re.nullable /\ Fold(CharAt(s, p)) \notin re.first THEN -1
    ELSE LET ends == AlternationEnds(s, p, re.alts, 1)
             I == {i \in 1..Len(ends) : ok[ends[i]]}
         IN  IF I = {} THEN -1 ELSE ends[SetMin(I)]

\* the offsets of s where \b matches, as the continuation of a pattern
AtBoundary(s) == [e \in 0..Len(s) |-> WordBoundary(s, e)]

\* the offsets of s where PUNCT + '$' matches: only PUNCT characters follow
AtPunctEnd(s) == [e \in 0..Len(s) |-> \A i \in (e + 1)..Len(s) : s[i] \in PUNCT]

(***************************************************************************)
(* The four replacements titleCase applies to each segment                 *)
(***************************************************************************)
\* [a-z.'Õ], the characters that continue a word
WordRest == LowerSet \cup {".", "'", "\\u00D5"}

\* /\b([A-Za-z][a-z.'Õ]*)\b/ at offset p of s: the length of its match, -1
\* when it has none. The star is greedy and backs off to the last offset where
\* \b holds.
wordAt(s, p) ==
    IF ~(p < Len(s) /\ s[p + 1] \in Letters /\ WordBoundary(s, p)) THEN -1
    ELSE LET greedy == SetMax({e \in (p + 1)..Len(s) :
                                  \A i \in (p + 2)..e : s[i] \in WordRest})
             ends == {e \in (p + 1)..greedy : WordBoundary(s, e)}
         IN  IF ends = {} THEN -1 ELSE SetMax(ends) - p

\* /[A-Za-z]\.[A-Za-z]/.test(all)
isAbbreviation(all) ==
    \E i \in 1..(Len(all) - 2) :
        all[i] \in Letters /\ all[i + 1] = "." /\ all[i + 2] \in Letters

\* .replace(/\b([A-Za-z][a-z.'Õ]*)\b/g, function (all) { ... })
wordPass(s) ==
    LET ms == Scan([p \in 0..Len(s) |-> wordAt(s, p)], 0, Len(s))
        reps == [k \in 1..Len(ms) |->
                    LET all == Matched(s, ms[k])
                    IN  IF isAbbreviation(all) THEN all ELSE capitalize(all)]
    IN  Splice(s, ms, reps, 1, 0)

\* the same pattern without its closing \b
blacklistAt_unanchored(s, p, re) ==
    IF ~WordBoundary(s, p) THEN -1
    ELSE LET e == BlacklistEnd(s, p, re, [q \in 0..Len(s) |-> TRUE])
         IN  IF e < 0 THEN -1 ELSE e - p

\* new RegExp('\\b' + blacklist + '\\b', 'ig') at offset p of s
blacklistAt(s, p, re) ==
    IF ~WordBoundary(s, p) THEN -1
    ELSE LET e == BlacklistEnd(s, p, re, AtBoundary(s))
         IN  IF e < 0 THEN -1 ELSE e - p

\* .replace(new RegExp('\\b' + blacklist + '\\b', 'ig'), utils.lowerCase)
blacklistPass(s, re) ==
    LET ms == Scan([p \in 0..Len(s) |-> blacklistAt(s, p, re)], 0, Len(s))
        reps == [k \in 1..Len(ms) |-> lowerCase(Matched(s, ms[k]))]
    IN  Splice(s, ms, reps, 1, 0)

\* new RegExp('^' + PUNCT + blacklist + '\\b', 'ig') on s: <<the length of the
\* PUNCT group, the end offset of the match>>, <<-1, -1>> when it does not match.
\* The PUNCT star is greedy and gives characters back one by one.
startEdgeMatch(s, re) ==
    LET greedy == SetMax({k \in 0..Len(s) : \A i \in 1..k : s[i] \in PUNCT})
        end == [j \in 0..greedy |-> BlacklistEnd(s, j, re, AtBoundary(s))]
        J == {j \in 0..greedy : end[j] >= 0}
    IN  IF J = {} THEN <<-1, -1>> ELSE <<SetMax(J), end[SetMax(J)]>>

\* .replace(new RegExp('^' + PUNCT + blacklist + '\\b', 'ig'),
\*          function (all, PUNCT, word) { return PUNCT + utils.capitalize(word); })
\* A blacklist with no group of its own leaves the pattern one group, and the
\* callback's third argument is then the match offset, a number: word.substr is
\* not a function and capitalize throws.
startEdgePass(s, re) ==
    LET m == startEdgeMatch(s, re)
    IN  IF m[2] < 0 THEN s
        ELSE IF ~re.grouped THEN TypeError
        ELSE substring(s, 0, m[1]) \o capitalize(substring(s, m[1], m[2]))
             \o substrFrom(s, m[2])

\* new RegExp('\\b' + blacklist + PUNCT + '$', 'ig') at offset p of s; the match
\* runs to the end of s
endEdgeAt(s, p, re) ==
    IF ~WordBoundary(s, p) THEN -1
    ELSE IF BlacklistEnd(s, p, re, AtPunctEnd(s)) < 0 THEN -1
    ELSE Len(s) - p

\* .replace(new RegExp('\\b' + blacklist + PUNCT + '$', 'ig'), utils.capitalize)
endEdgePass(s, re) ==
    LET ms == Scan([p \in 0..Len(s) |-> endEdgeAt(s, p, re)], 0, Len(s))
        reps == [k \in 1..Len(ms) |-> capitalize(Matched(s, ms[k]))]
    IN  Splice(s, ms, reps, 1, 0)

\* the argument of parts.push: the four replacements in the order of the chain;
\* an exception thrown by the third leaves the chain
capitalizeSegment(segment, blacklist) ==
    LET re == BlacklistRegExp(blacklist)
        edged == startEdgePass(blacklistPass(wordPass(segment), re), re)
    IN  IF edged = TypeError THEN TypeError ELSE endEdgePass(edged, re)

(***************************************************************************)
(* The three replacements applied to the joined parts                      *)
(***************************************************************************)
\* / V(s?)\. /ig at offset p of s
vsAt(s, p) ==
    IF ~(CharAt(s, p) = " " /\ Fold(CharAt(s, p + 1)) = "v") THEN -1
    ELSE IF Fold(CharAt(s, p + 2)) = "s" /\ CharAt(s, p + 3) = "."
            /\ CharAt(s, p + 4) = " " THEN 5
    ELSE IF CharAt(s, p + 2) = "." /\ CharAt(s, p + 3) = " " THEN 4
    ELSE -1

\* the replacement written ' v. ', without $1
vsPass_withoutGroup(s) ==
    LET ms == Scan([p \in 0..Len(s) |-> vsAt(s, p)], 0, Len(s))
        reps == [k \in 1..Len(ms) |-> <<" ", "v", ".", " ">>]
    IN  Splice(s, ms, reps, 1, 0)

\* .replace(/ V(s?)\. /ig, ' v$1. ')
vsPass(s) ==
    LET ms == Scan([p \in 0..Len(s) |-> vsAt(s, p)], 0, Len(s))
        reps == [k \in 1..Len(ms) |->
                    <<" ", "v">> \o substr(s, ms[k][1] + 2, ms[k][2] - 4) \o <<".", " ">>]
    IN  Splice(s, ms, reps, 1, 0)

\* /(['Õ])S\b/ig at offset p of s
possessiveAt(s, p) ==
    IF CharAt(s, p) \in {"'", "\\u00D5"} /\ Fold(CharAt(s, p + 1)) = "s"
       /\ WordBoundary(s, p + 2)
    THEN 2 ELSE -1

\* .replace(/(['Õ])S\b/ig, '$1s')
possessivePass(s) ==
    LET ms == Scan([p \in 0..Len(s) |-> possessiveAt(s, p)], 0, Len(s))
        reps == [k \in 1..Len(ms) |-> substr(s, ms[k][1], 1) \o <<"s">>]
    IN  Splice(s, ms, reps, 1, 0)

\* /\b(AT&T|Q&A)\b/ig at offset p of s
acronymAt(s, p) ==
    IF ~WordBoundary(s, p) THEN -1
    ELSE IF toLowerCase(substr(s, p, 4)) = <<"a", "t", "&", "t">>
            /\ WordBoundary(s, p + 4) THEN 4
    ELSE IF toLowerCase(substr(s, p, 3)) = <<"q", "&", "a">>
            /\ WordBoundary(s, p + 3) THEN 3
    ELSE -1

\* .replace(/\b(AT&T|Q&A)\b/ig, function (all) { return all.toUpperCase(); })
acronymPass(s) ==
    LET ms == Scan([p \in 0..Len(s) |-> acronymAt(s, p)], 0, Len(s))
        reps == [k \in 1..Len(ms) |-> toUpperCase(Matched(s, ms[k]))]
    IN  Splice(s, ms, reps, 1, 0)

\* the return expression of titleCase
normalize(ps) == acronymPass(possessivePass(vsPass(join(ps))))

(***************************************************************************)
(* titleCase                                                               *)
(***************************************************************************)
\* ["Ò]
OpenQuotes == {"\"", "\\u00D2"}

\* /[:.;?!] |(?: |^)["Ò]/ at offset p of s: the length of its match, -1 when it
\* has none
splitAt(s, p) ==
    IF CharAt(s, p) \in {":", ".", ";", "?", "!"} /\ CharAt(s, p + 1) = " " THEN 2
    ELSE IF CharAt(s, p) = " " /\ CharAt(s, p + 1) \in OpenQuotes THEN 2
    ELSE IF p = 0 /\ CharAt(s, 0) \in OpenQuotes THEN 1
    ELSE -1

\* the value of m when split.exec returns null
NoMatch == [index |-> -1, text |-> <<>>]

\* an exec that leaves lastIndex one past the start of the match
exec_resumesInsideMatch(s, lastIndex) ==
    LET at == {p \in lastIndex..Len(s) : splitAt(s, p) >= 0}
    IN  IF at = {} THEN [m |-> NoMatch, lastIndex |-> 0]
        ELSE LET p == SetMin(at)
             IN  [m |-> [index |-> p, text |-> substr(s, p, splitAt(s, p))],
                  lastIndex |-> p + 1]

\* split.exec(s) with split.lastIndex = lastIndex: the match m (its index and
\* m[0]) and the lastIndex it leaves, 0 after a failed search
exec(s, lastIndex) ==
    LET at == {p \in lastIndex..Len(s) : splitAt(s, p) >= 0}
    IN  IF at = {} THEN [m |-> NoMatch, lastIndex |-> 0]
        ELSE LET p == SetMin(at)
             IN  [m |-> [index |-> p, text |-> substr(s, p, splitAt(s, p))],
                  lastIndex |-> p + splitAt(s, p)]

\* the blacklist arguments: undefined, a pattern source, an array of words
Undefined == [type |-> "undefined", value |-> <<>>]
StringOf(src) == [type |-> "string", value |-> src]
ArrayOf(items) == [type |-> "array", value |-> items]

\* blacklist || SMALL
orSMALL(blacklist) ==
    IF blacklist.type = "array" \/ (blacklist.type = "string" /\ blacklist.value # <<>>)
    THEN blacklist ELSE StringOf(SMALL)

\* title.substring(index, m ? m.index : title.length)
slice(s, index, m) == substring(s, index, IF m # NoMatch THEN m.index ELSE Len(s))

RECURSIVE loop(_, _, _, _)
\* the while loop from the state (parts, index = split.lastIndex) on: the parts
\* at the break, or the exception that leaves the loop
loop(s, blacklist, ps, index) ==
    LET x == exec(s, index)
        part == capitalizeSegment(slice(s, index, x.m), blacklist)
    IN  IF part = TypeError THEN [threw |-> TRUE, parts |-> ps]
        ELSE IF x.m # NoMatch
             THEN loop(s, blacklist, ps \o <<part, x.m.text>>, x.lastIndex)
        ELSE [threw |-> FALSE, parts |-> Append(ps, part)]

\* utils.titleCase(title, blacklist): the string returned, TypeError when thrown
titleCase(t, b) ==
    LET end == loop(lowerCase(t), orSMALL(b), <<>>, 0)
    IN  IF end.threw THEN TypeError ELSE normalize(end.parts)

(***************************************************************************)
(* The calls explored                                                      *)
(***************************************************************************)
MaxPieces == 3

\* the texts titles are built from
Pieces ==
    {<<"a">>,
     <<"v">>,
     <<"s">>,
     <<"t">>,
     <<"T">>,
     <<"x", " ">>,
     <<" ", "y">>,
     <<" ">>,
     <<".">>,
     <<":">>,
     <<"'">>,
     <<"\"">>,
     <<"&">>}

RECURSIVE Concatenations(_)
\* the concatenations of at most n pieces
Concatenations(n) ==
    IF n = 0 THEN {<<>>}
    ELSE LET shorter == Concatenations(n - 1)
         IN  shorter \cup {s \o piece : s \in shorter, piece \in Pieces}

\* longer titles
Examples ==
    {<<"t", "h", "e", " ", "u", ".", "s", ".", " ", "p", "r", "e", "s", "i", "d", "e", "n", "t">>,
     <<"a", " ", "t", "a", "l", "e", " ", "o", "f", " ", "t", "w", "o", " ", "c", "i", "t", "i", "e", "s">>,
     <<"w", "a", "r", " ", "a", "n", "d", " ", "p", "e", "a", "c", "e">>,
     <<"t", "o", " ", "b", "e", ":", " ", "o", "r", " ", "n", "o", "t", " ", "t", "o", " ", "b", "e">>,
     <<"a", "t", "&", "t", " ", "a", "n", "d", " ", "q", "&", "a", " ", "s", "e", "s", "s", "i", "o", "n">>,
     <<"d", "o", "g", "'", "s", " ", "b", "o", "n", "e">>,
     <<"T", "h", "e", " ", "C", "a", "t">>,
     <<"x", " ", "a", "t", "&", "t", " ", "y">>,
     <<"x", " ", "q", "&", "a", " ", "y">>,
     <<"x", " ", "v", "i", "a", " ", "y">>,
     <<"x", " ", "v", "s", ".", " ", "y">>,
     <<"W", "A", "R", " ", "A", "N", "D", " ", "P", "E", "A", "C", "E">>,
     <<"b", "a", "n", "d", " ", "o", "f", " ", "o", "f", "t", "e", "n">>,
     <<"a", ".", "m", " ", "i", "s", " ", "e", "a", "r", "l", "y">>,
     <<" ", "t", "h", "e", " ", "c", "a", "t">>,
     <<"x", " ", "v", ".", " ", "y">>,
     <<"x", " ", "a", "t", " ", "y">>,
     <<"t", "h", "e", " ", "c", "a", "t", "'", "s", " ", "A", "T", "&", "T", " ", "b", "a", "n", "d">>,
     <<"h", "e", " ", "s", "a", "i", "d", " ", "\"", "t", "h", "e", " ", "e", "n", "d", "\"", " ", "o", "f", " ", "i", "t">>}

Titles == Concatenations(MaxPieces) \cup Examples

\* the titles of the calls that pass a blacklist
BlacklistTitles ==
    {<<"w", "a", "r", " ", "o", "f", " ", "t", "h", "e", " ", "w", "o", "r", "l", "d", "s">>,
     <<"o", "f", ",", "t", "h", "e", " ", "x">>,
     <<"o", "f", " ", "m", "i", "c", "e">>,
     <<"t", "h", "e", " ", "o", "f">>,
     <<"x", ":", " ", "t", "h", "e", " ", "e", "n", "d">>,
     <<"o", "f">>}

OfThe == <<<<"o", "f">>, <<"t", "h", "e">>>>

\* the blacklists passed: '(of|the)', ['of', 'the'], ['of'], ''
Blacklists ==
    {StringOf(<<"(", "o", "f", "|", "t", "h", "e", ")">>), ArrayOf(OfThe), ArrayOf(<<OfThe[1]>>),
     StringOf(<<>>)}

(***************************************************************************)
(* The state: the arguments and locals of one call of titleCase, where the *)
(* call stands, and what it returned. input keeps the title argument as it *)
(* was passed, raw the slices and boundaries as they were cut from the     *)
(* lowercased title.                                                       *)
(***************************************************************************)
VARIABLES title, blacklist, parts, index, lastIndex, m, pc, result, input, raw

vars == <<title, blacklist, parts, index, lastIndex, m, pc, result, input, raw>>

Init ==
    /\ \/ title \in Titles \cup {null, undefined} /\ blacklist = Undefined
       \/ title \in BlacklistTitles /\ blacklist \in Blacklists
    /\ input = title
    /\ parts = <<>>
    /\ index = 0
    /\ lastIndex = 0
    /\ m = NoMatch
    /\ pc = "call"
    /\ result = undefined
    /\ raw = <<>>

\* the statements before the loop
Enter ==
    /\ pc = "call"
    /\ title' = lowerCase(title)
    /\ blacklist' = orSMALL(blacklist)
    /\ pc' = "loop"
    /\ UNCHANGED <<parts, index, lastIndex, m, result, input, raw>>

\* one pass through the body of the loop
Iterate ==
    /\ pc = "loop"
    /\ LET x == exec(title, lastIndex)
           part == capitalizeSegment(slice(title, index, x.m), blacklist)
       IN  /\ m' = x.m
           /\ lastIndex' = x.lastIndex
           /\ IF part = TypeError
              THEN /\ pc' = "thrown"
                   /\ result' = TypeError
                   /\ UNCHANGED <<parts, index, raw>>
              ELSE /\ index' = x.lastIndex
                   /\ parts' = IF x.m # NoMatch THEN parts \o <<part, x.m.text>>
                               ELSE Append(parts, part)
                   /\ raw' = IF x.m # NoMatch
                             THEN raw \o <<slice(title, index, x.m), x.m.text>>
                             ELSE Append(raw, slice(title, index, x.m))
                   /\ pc' = IF x.m # NoMatch THEN "loop" ELSE "break"
                   /\ UNCHANGED result
    /\ UNCHANGED <<title, blacklist, input>>

\* the return statement
Return ==
    /\ pc = "break"
    /\ result' = normalize(parts)
    /\ pc' = "done"
    /\ UNCHANGED <<title, blacklist, parts, index, lastIndex, m, input, raw>>

Next == Enter \/ Iterate \/ Return

Spec == Init /\ [][Next]_vars

(***************************************************************************)
(* What the properties speak of. The lowercased title is title once the    *)
(* call has entered; raw holds its segments (odd indices) and boundaries   *)
(* (even indices); a word is a maximal run of letters, which is what \b    *)
(* delimits in a title of letters, spaces and punctuation.                 *)
(***************************************************************************)
Returned == pc = "done"

\* the call uses the default blacklist
DefaultBlacklist == pc # "call" /\ blacklist = StringOf(SMALL)

IsString(v) == v # null /\ v # undefined

LetterAt(s, i) == i >= 1 /\ i <= Len(s) /\ s[i] \in Letters

\* the words of s, as <<first index, last index>>
Words(s) ==
    {<<i, SetMin({j \in i..Len(s) : ~LetterAt(s, j + 1)})>> :
        i \in {i \in 1..Len(s) : LetterAt(s, i) /\ ~LetterAt(s, i - 1)}}

RECURSIVE Flat(_)
\* the concatenation of a sequence of strings
Flat(ss) == IF Len(ss) = 0 THEN <<>> ELSE ss[1] \o Flat(Tail(ss))

\* the segments cut so far, as indices of raw
Segments == {k \in 1..Len(raw) : k % 2 = 1}

\* the offset in the lowercased title at which raw[k] starts
StartOf(k) == Len(Flat(SubSeq(raw, 1, k - 1)))

\* the words of the lowercased title that lie in segment k
WordsIn(k) ==
    {w \in Words(title) : w[1] > StartOf(k) /\ w[2] <= StartOf(k) + Len(raw[k])}

IsFirstIn(w, k) == w \in WordsIn(k) /\ \A v \in WordsIn(k) : w[1] <= v[1]
IsLastIn(w, k) == w \in WordsIn(k) /\ \A v \in WordsIn(k) : v[1] <= w[1]

\* w is a word of some segment, neither its first nor its last
MidSegment(w) ==
    \E k \in Segments : w \in WordsIn(k) /\ ~IsFirstIn(w, k) /\ ~IsLastIn(w, k)

Text(w) == SubSeq(title, w[1], w[2])

\* how the word w comes out in the string out
Lowered(out, w) == SubSeq(out, w[1], w[2]) = Text(w)
Capitalized(out, w) ==
    /\ out[w[1]] \in UpperSet
    /\ Fold(out[w[1]]) = title[w[1]]
    /\ SubSeq(out, w[1] + 1, w[2]) = SubSeq(title, w[1] + 1, w[2])

\* no period or apostrophe joins w to a neighbouring word
Standalone(w) ==
    /\ CharAt(title, w[1] - 2) \notin {".", "'"}
    /\ CharAt(title, w[2]) \notin {".", "'"}

\* w lies in an occurrence of at&t or q&a that stands between word boundaries
InAcronym(w) ==
    \E a \in {<<"a", "t", "&", "t">>, <<"q", "&", "a">>} :
        \E p \in 0..Len(title) :
            /\ substr(title, p, Len(a)) = a
            /\ WordBoundary(title, p) /\ WordBoundary(title, p + Len(a))
            /\ p < w[1] /\ w[2] <= p + Len(a)

\* u occurs in v without being all of it
ProperlyWithin(u, v) ==
    Len(u) < Len(v) /\ \E p \in 0..(Len(v) - Len(u)) : substr(v, p, Len(u)) = u

\* the words of the default blacklist as the specification lists them (v. and
\* vs. are the words v and vs followed by a period)
ListedWords ==
    {<<"a">>, <<"a", "n">>, <<"a", "n", "d">>,
     <<"a", "s">>, <<"a", "t">>, <<"b", "u", "t">>,
     <<"b", "y">>, <<"e", "n">>, <<"f", "o", "r">>,
     <<"i", "f">>, <<"i", "n">>, <<"o", "f">>,
     <<"o", "n">>, <<"o", "r">>, <<"t", "h", "e">>,
     <<"t", "o">>, <<"v">>, <<"v", "s">>}

\* the words SMALL holds
SmallWords == ListedWords \cup {<<"v", "i", "a">>}

(***************************************************************************)
(* Properties                                                              *)
(***************************************************************************)
\* C1: titleCase is idempotent under the default blacklist: applied to the
\* string a call returned, it returns that string.
Idempotent ==
    Returned /\ DefaultBlacklist => titleCase(result, Undefined) = result

IdempotentWitness ==
    /\ Returned /\ DefaultBlacklist
    /\ Len(parts) >= 3
    /\ result # input
    /\ result # title

EdgeWordsCapitalized ==
    Returned /\ DefaultBlacklist =>
        \A k \in Segments : \A w \in WordsIn(k) :
            (IsFirstIn(w, k) \/ IsLastIn(w, k)) /\ Standalone(w) =>
                result[w[1]] \in UpperSet \/ Flat(parts)[w[1]] \in UpperSet

\* C4 as stated: with the default blacklist, every blacklisted word that is
\* neither first nor last in its segment is lowercase in the returned string.
MidSegmentBlacklistLowered ==
    Returned /\ DefaultBlacklist =>
        \A w \in Words(title) :
            Text(w) \in SmallWords /\ MidSegment(w) => Lowered(result, w)

\* C4 as amended: with the default blacklist, every blacklisted word that is
\* neither first nor last in its segment is lowercase in the returned string
\* unless it lies in an occurrence of at&t or q&a, and every standalone word
\* that only contains a blacklisted word comes out capitalized.
WholeWordBlacklist ==
    Returned /\ DefaultBlacklist =>
        \A w \in Words(title) :
            /\ Text(w) \in SmallWords /\ MidSegment(w) /\ ~InAcronym(w)
                  => Lowered(result, w)
            /\ Text(w) \notin SmallWords /\ Standalone(w)
               /\ (\E u \in SmallWords : ProperlyWithin(u, Text(w)))
                  => Capitalized(result, w)

WholeWordBlacklistWitness ==
    /\ Returned /\ DefaultBlacklist
    /\ \E w \in Words(title) :
          Text(w) \in SmallWords /\ MidSegment(w) /\ Lowered(result, w)
    /\ \E w \in Words(title) :
          /\ Text(w) \notin SmallWords /\ Standalone(w)
          /\ \E u \in SmallWords : ProperlyWithin(u, Text(w))
          /\ Capitalized(result, w)

\* a word of the lowercased title with a space or an end of the title on each side
SpaceDelimited(w) ==
    /\ w[1] = 1 \/ title[w[1] - 1] = " "
    /\ w[2] = Len(title) \/ title[w[2] + 1] = " "

\* With the default blacklist, the space-delimited words that come out lowercase
\* mid-segment are those of the set listed, and every other space-delimited word
\* comes out capitalized, wherever it stands.
LoweredAreExactly(listed) ==
    Returned /\ DefaultBlacklist =>
        \A w \in Words(title) :
            SpaceDelimited(w) =>
                /\ Text(w) \in listed /\ MidSegment(w) => Lowered(result, w)
                /\ Text(w) \notin listed => Capitalized(result, w)

\* C5 as stated: the default blacklist is a, an, and, as, at, but, by, en, for,
\* if, in, of, on, or, the, to, v, v., vs, vs.
DefaultIsListed == LoweredAreExactly(ListedWords)

\* C5 as amended: the default blacklist is that list and via.
DefaultIsSmall == LoweredAreExactly(SmallWords)

DefaultIsSmallWitness ==
    /\ Returned /\ DefaultBlacklist
    /\ \E w \in Words(title) :
          /\ Text(w) = <<"v", "i", "a">>
          /\ SpaceDelimited(w) /\ MidSegment(w) /\ Lowered(result, w)
    /\ \E w \in Words(title) :
          SpaceDelimited(w) /\ Text(w) \notin SmallWords /\ Capitalized(result, w)

\* C6: every abbreviation fragment of a segment (a word-pattern match that holds
\* a letter, a period, a letter) is in the capitalized segment what it is in the
\* lowercased title.
AbbreviationsUntouched ==
    DefaultBlacklist =>
        \A k \in Segments :
            \A p \in 0..Len(raw[k]) :
                LET n == wordAt(raw[k], p)
                IN  n > 0 /\ isAbbreviation(substr(raw[k], p, n))
                       => substr(parts[k], p, n) = substr(raw[k], p, n)

\* C7: titleCase("the u.s. president") returns "The U.S. President".
USPresident ==
    Returned /\ DefaultBlacklist
      /\ input = <<"t", "h", "e", " ", "u", ".", "s", ".", " ", "p", "r", "e", "s", "i", "d", "e", "n", "t">>
        => result = <<"T", "h", "e", " ", "U", ".", "S", ".", " ", "P", "r", "e", "s", "i", "d", "e", "n", "t">>

\* C8 as stated: a call with a null or undefined title returns no string.
NullTitleFails == Returned => IsString(input)

\* C8 as amended: a call with a null or undefined title does not throw and
\* returns the empty string.
NullTitleIsEmpty ==
    ~IsString(input) =>
        /\ pc # "thrown"
        /\ pc # "call" => title = <<>>
        /\ Returned => result = <<>>

NullTitleIsEmptyWitness == Returned /\ ~IsString(input) /\ result = <<>>

\* the call passed its blacklist as an array of two or more words
WordList == blacklist.type = "array" /\ Len(blacklist.value) >= 2

ListedIn(items, w) == \E i \in 1..Len(items) : items[i] = Text(w)

Cut == Flat(raw)

\* At the head of the loop the slices and boundaries cut so far are the
\* lowercased title up to the cursor; at the break they are an odd number and
\* are the whole lowercased title; the parts pushed are as many, and at the even
\* places both hold a boundary, the same text.
SegmentationState ==
    /\ pc = "loop" => Len(raw) % 2 = 0 /\ index = lastIndex
                      /\ Cut = substring(title, 0, index)
    /\ pc \in {"break", "done"} => Len(raw) % 2 = 1 /\ Cut = title
    /\ Len(parts) = Len(raw)
    /\ \A k \in 1..Len(raw) :
          k % 2 = 0 => splitAt(raw[k], 0) = Len(raw[k]) /\ parts[k] = raw[k]

\* Every match is non-empty and starts at or after the cursor, which it
\* advances to its end, and adds a slice and a boundary; the pass that finds no
\* match adds the last slice alone.
SegmentationStep ==
    /\ pc = "loop" /\ m' # NoMatch =>
          /\ Len(m'.text) > 0
          /\ m'.index >= index
          /\ index' > index
          /\ index' = m'.index + Len(m'.text)
          /\ Len(raw') = Len(raw) + 2
          /\ raw'[Len(raw')] = m'.text
          /\ pc' = "loop"
    /\ pc = "loop" /\ pc' = "break" => m' = NoMatch /\ Len(raw') = Len(raw) + 1

\* C10: in the loop every match is non-empty and starts at or after the cursor,
\* which each match advances; at the head of the loop the slices and boundaries
\* cut so far are the lowercased title up to the cursor; at the break the parts
\* are segment, boundary, ..., segment, one more segment than matches, and are
\* the whole lowercased title.

====
